---- MODULE Spec2Model ----
(***************************************************************************)
(* Vineyard health pipeline: the vegetation indices                        *)
(* (src/src/vegetation_indices.py), the grid aggregation and the health    *)
(* extraction (src/src/utils.py) and the orchestration (src/main.py).      *)
(*                                                                         *)
(* Floating-point samples are modelled as exact fractions [n, d] with      *)
(* d > 0 for finite values, d = 0 /\ n = 0 for NaN and d = 0 /\ n = +-1    *)
(* for +-infinity.  8-bit samples are integers in 0..255.                  *)
(***************************************************************************)
EXTENDS Integers, Sequences, FiniteSets

\* ------------------------------------------------------------ bounds
\* Largest raster height and width explored.
MaxH == 3
MaxW == 3
\* Largest grid cell width / height explored.
MaxCell == 3
\* Largest height and width of the band images loaded by main.
MaxBand == 3

VARIABLES
    \* --- a direct call of one of the four index functions
    index_fn, nir, band, index_out,
    \* --- create_grid_with_color_mapping
    grid_pc, ndvi_image, dim_x, dim_y, ndvi_img_array, color_mapped_ndvi,
    image_without_grid, image_with_visible_grid, y, x, y_next, x_next,
    aliased, visited, mean_value, grid_out,
    \* --- extract_vineyard_health_data
    health_pc, health_arg, vineyard_total_area_hectareas,
    outside_vineyard_color, ground_color, image_copy_without_grid,
    total_vineyard_pixels, total_plant_pixels, healthiness_values,
    hy, hx, health_out,
    \* --- main
    main_pc, config, nir_image, rgb_image, r_image, r, saved, main_exc

indexVars == <<index_fn, nir, band, index_out>>
gridVars == <<grid_pc, ndvi_image, dim_x, dim_y, ndvi_img_array,
              color_mapped_ndvi, image_without_grid, image_with_visible_grid,
              y, x, y_next, x_next, aliased, visited, mean_value, grid_out>>
healthVars == <<health_pc, health_arg, vineyard_total_area_hectareas,
                outside_vineyard_color, ground_color, image_copy_without_grid,
                total_vineyard_pixels, total_plant_pixels, healthiness_values,
                hy, hx, health_out>>
mainVars == <<main_pc, config, nir_image, rgb_image, r_image, r, saved, main_exc>>
vars == <<indexVars, gridVars, healthVars, mainVars>>

\* ------------------------------------------------------------ numbers
Abs(i) == IF i < 0 THEN -i ELSE i
Sign(i) == IF i < 0 THEN -1 ELSE IF i > 0 THEN 1 ELSE 0
Max(a, b) == IF a >= b THEN a ELSE b
Min(a, b) == IF a <= b THEN a ELSE b

RECURSIVE GCD(_, _)
GCD(a, b) == IF b = 0 THEN a ELSE GCD(b, a % b)

\* ceil(a / b) for a >= 0, b > 0
CeilDiv(a, b) == (a + b - 1) \div b

\* A float: the fraction n/d in lowest terms, or NaN / +-infinity.
Frac(n, d) ==
    LET g == GCD(Abs(n), Abs(d))
    IN [n |-> Sign(d) * (n \div g), d |-> Abs(d) \div g]
NaN == [n |-> 0, d |-> 0]
Inf(s) == [n |-> s, d |-> 0]
IsNaN(v) == v.d = 0 /\ v.n = 0
IsInf(v) == v.d = 0 /\ v.n # 0
IsFinite(v) == v.d > 0
FromInt(i) == [n |-> i, d |-> 1]

\* IEEE arithmetic on floats (rounding and the sign of zero left out).
FNeg(a) == [n |-> -a.n, d |-> a.d]
FAdd(a, b) ==
    IF IsNaN(a) \/ IsNaN(b) THEN NaN
    ELSE IF IsInf(a) THEN (IF IsInf(b) /\ b.n # a.n THEN NaN ELSE a)
    ELSE IF IsInf(b) THEN b
    ELSE Frac(a.n * b.d + b.n * a.d, a.d * b.d)
FSub(a, b) == FAdd(a, FNeg(b))
FMul(a, b) ==
    IF IsNaN(a) \/ IsNaN(b) THEN NaN
    ELSE IF IsInf(a) \/ IsInf(b)
         THEN (IF a.n = 0 \/ b.n = 0 THEN NaN ELSE Inf(Sign(a.n) * Sign(b.n)))
    ELSE Frac(a.n * b.n, a.d * b.d)
FDiv(a, b) ==
    IF IsNaN(a) \/ IsNaN(b) THEN NaN
    ELSE IF IsInf(a) THEN (IF IsInf(b) THEN NaN
                           ELSE Inf(a.n * (IF b.n < 0 THEN -1 ELSE 1)))
    ELSE IF IsInf(b) THEN FromInt(0)
    ELSE IF b.n = 0 THEN (IF a.n = 0 THEN NaN ELSE Inf(Sign(a.n)))
    ELSE Frac(a.n * b.d, a.d * b.n)

\* ------------------------------------------------------------ rasters
\* A raster: height, width, dtype and the samples px[<<row, column>>].
Pixels(h, w) == (0 .. h - 1) \X (0 .. w - 1)
Shape(a) == <<a.h, a.w>>

\* A raster of one value, and one with a single pixel at `at` set to `spot`.
Uniform(h, w, dtype, v) ==
    [h |-> h, w |-> w, dtype |-> dtype, px |-> [p \in Pixels(h, w) |-> v]]
Spotted(h, w, dtype, v, at, spot) ==
    [h |-> h, w |-> w, dtype |-> dtype,
     px |-> [p \in Pixels(h, w) |-> IF p = at THEN spot ELSE v]]
Spotted2(h, w, dtype, v, at1, s1, at2, s2) ==
    [h |-> h, w |-> w, dtype |-> dtype,
     px |-> [p \in Pixels(h, w) |->
               IF p = at1 THEN s1 ELSE IF p = at2 THEN s2 ELSE v]]
Family2(maxH, maxW, dtype, grounds, spots1, spots2) ==
    UNION { { Spotted2(h, w, dtype, v, at1, s1, at2, s2) :
                v \in grounds, at1 \in Pixels(h, w), s1 \in spots1,
                at2 \in Pixels(h, w), s2 \in spots2 }
          : h \in 1 .. maxH, w \in 1 .. maxW }
Family(maxH, maxW, dtype, grounds, spots) ==
    UNION { { Uniform(h, w, dtype, v) : v \in grounds }
            \cup { Spotted(h, w, dtype, v, at, s) :
                     v \in grounds, at \in Pixels(h, w), s \in spots }
          : h \in 1 .. maxH, w \in 1 .. maxW }
\* No raster: an unset variable, or a name not yet bound.
NoRaster == Uniform(0, 0, "none", 0)

\* What a call gives back: a value, or the exception it raised.
Ok(v) == [exc |-> "none", val |-> v]
Raise(e) == [exc |-> e, val |-> NoRaster]
NoResult == [exc |-> "pending", val |-> NoRaster]

\* ------------------------------------------------------------ vegetation_indices.py
\* Fault variant: the promotion forgotten: the samples stay 8-bit.
NoPromotion(a) == a
\* np.float32(a): every sample becomes a float of the same value; from there
\* on arithmetic is floating point and no longer modulo 256.
Float32(a) ==
    [a EXCEPT !.dtype = "float32",
              !.px = [p \in DOMAIN a.px |->
                        IF a.dtype = "uint8" THEN FromInt(a.px[p]) ELSE a.px[p]]]

\* numpy broadcasting of two 2-D arrays: each axis equal, or one of them 1.
Broadcastable(a, b) ==
    /\ (a.h = b.h \/ a.h = 1 \/ b.h = 1)
    /\ (a.w = b.w \/ a.w = 1 \/ b.w = 1)
At(a, p) == a.px[<<IF a.h = 1 THEN 0 ELSE p[1], IF a.w = 1 THEN 0 ELSE p[2]>>]
BPixels(a, b) == Pixels(Max(a.h, b.h), Max(a.w, b.w))

\* a - b, a + b, a / b on arrays: uint8 arrays wrap modulo 256, and true
\* division always yields floats.
ArrSub(a, b) ==
    [h |-> Max(a.h, b.h), w |-> Max(a.w, b.w), dtype |-> a.dtype,
     px |-> [p \in BPixels(a, b) |->
               IF a.dtype = "uint8" THEN (At(a, p) - At(b, p)) % 256
               ELSE FSub(At(a, p), At(b, p))]]
ArrAdd(a, b) ==
    [h |-> Max(a.h, b.h), w |-> Max(a.w, b.w), dtype |-> a.dtype,
     px |-> [p \in BPixels(a, b) |->
               IF a.dtype = "uint8" THEN (At(a, p) + At(b, p)) % 256
               ELSE FAdd(At(a, p), At(b, p))]]
ArrDiv(a, b) ==
    [h |-> Max(a.h, b.h), w |-> Max(a.w, b.w),
     dtype |-> IF a.dtype = "uint8" THEN "float64" ELSE a.dtype,
     px |-> [p \in BPixels(a, b) |->
               IF a.dtype = "uint8" THEN FDiv(FromInt(At(a, p)), FromInt(At(b, p)))
               ELSE FDiv(At(a, p), At(b, p))]]

\* Each index: promote both bands, then (p - q) / (p + q); a failure of the
\* arithmetic (shapes that do not broadcast) is re-raised as ValueError.
ndvi(nir_, r_) ==
    LET a == Float32(nir_)
        b == Float32(r_)
    IN IF Broadcastable(a, b)
       THEN Ok(ArrDiv(ArrSub(a, b), ArrAdd(a, b)))
       ELSE Raise("ValueError")
gndvi(nir_, g_) ==
    LET a == Float32(nir_)
        b == Float32(g_)
    IN IF Broadcastable(a, b)
       THEN Ok(ArrDiv(ArrSub(a, b), ArrAdd(a, b)))
       ELSE Raise("ValueError")
ndre(nir_, re_) ==
    LET a == Float32(nir_)
        b == Float32(re_)
    IN IF Broadcastable(a, b)
       THEN Ok(ArrDiv(ArrSub(a, b), ArrAdd(a, b)))
       ELSE Raise("ValueError")
ndwi(nir_, g_) ==
    LET a == Float32(nir_)
        b == Float32(g_)
    IN IF Broadcastable(a, b)
       THEN Ok(ArrDiv(ArrSub(b, a), ArrAdd(b, a)))
       ELSE Raise("ValueError")

\* ------------------------------------------------------------ utils.py: the grid
\* The samples of a[y:y+dim_y, x:x+dim_x]: a slice is clipped to the array.
CellPixels(a, y0, x0, dx, dy) ==
    { p \in Pixels(a.h, a.w) : /\ y0 <= p[1] /\ p[1] < y0 + dy
                               /\ x0 <= p[2] /\ p[2] < x0 + dx }

RECURSIVE FSum(_, _)
FSum(f, S) ==
    IF S = {} THEN FromInt(0)
    ELSE LET p == CHOOSE q \in S : TRUE
         IN FAdd(f[p], FSum(f, S \ {p}))

\* np.mean(square)
Mean(a, S) == FDiv(FSum(a.px, S), FromInt(Cardinality(S)))

\* int(v): truncation toward zero; NaN and the infinities raise.
Trunc(v) == IF v.n >= 0 THEN v.n \div v.d ELSE -((-v.n) \div v.d)
PyIntError(v) ==
    IF IsNaN(v) THEN "ValueError" ELSE IF IsInf(v) THEN "OverflowError" ELSE "none"

\* mean_value * 255 * 20
Rescale(m) == FMul(FMul(m, FromInt(255)), FromInt(20))

\* Fault variant: the stored value clamped to 0..255 instead of wrapped.
SaturateUint8(i) == Min(Max(i, 0), 255)
\* A Python int stored into a uint8 array is reduced modulo 256 (the NumPy 1.x
\* conversion the program was written against).
Uint8(i) == i % 256

\* color_mapped_ndvi[y:y+dim_y, x:x+dim_x] = mean_value
FillCell(img, S, v) ==
    [img EXCEPT !.px = [p \in DOMAIN img.px |-> IF p \in S THEN Uint8(v) ELSE img.px[p]]]

\* Fault variant: the rectangle drawn filled (thickness -1).
RectFilled(img, x0, y0, x1, y1) ==
    { p \in Pixels(img.h, img.w) :
        y0 <= p[1] /\ p[1] <= y1 /\ x0 <= p[2] /\ p[2] <= x1 }
\* cv2.rectangle(img, (x0, y0), (x1, y1), (255, 255, 255), 1): the outline
\* of the rectangle with these two corners, one pixel wide, clipped to img.
RectOutline(img, x0, y0, x1, y1) ==
    { p \in Pixels(img.h, img.w) :
        /\ y0 <= p[1] /\ p[1] <= y1 /\ x0 <= p[2] /\ p[2] <= x1
        /\ (p[1] = y0 \/ p[1] = y1 \/ p[2] = x0 \/ p[2] = x1) }
Rectangle(img, x0, y0, x1, y1) ==
    [img EXCEPT !.px = [p \in DOMAIN img.px |->
                          IF p \in RectOutline(img, x0, y0, x1, y1) THEN 255
                          ELSE img.px[p]]]

\* Whether range(0, stop, step) still holds the value v.
InRange(v, stop, step) == (step > 0 /\ v < stop) \/ (step < 0 /\ v > stop)

GridOk(a, b) == [exc |-> "none", without |-> a, with |-> b]
GridRaise(e) == [exc |-> e, without |-> NoRaster, with |-> NoRaster]
GridPending == [exc |-> "pending", without |-> NoRaster, with |-> NoRaster]
Unbound == Uniform(0, 0, "unbound", 0)

\* The function ends: with its result, or with an exception that main does
\* not catch.
GridExit(result) ==
    /\ grid_out' = result
    /\ grid_pc' = "done"
    /\ IF main_pc = "in_grid"
       THEN /\ main_pc' = IF result.exc = "none" THEN "save" ELSE "raised"
            /\ main_exc' = IF result.exc = "none" THEN main_exc ELSE result.exc
       ELSE UNCHANGED <<main_pc, main_exc>>
    /\ UNCHANGED <<config, nir_image, rgb_image, r_image, r, saved>>

\* Lines 63-72: copy the input, take its shape, allocate the two rasters.
GridEnter ==
    /\ grid_pc = "call"
    /\ ndvi_img_array' = ndvi_image
    /\ color_mapped_ndvi' = Uniform(ndvi_image.h, ndvi_image.w, "uint8", 0)
    /\ image_with_visible_grid' = Uniform(ndvi_image.h, ndvi_image.w, "uint8", 0)
    /\ aliased' = FALSE
    /\ y_next' = 0
    /\ grid_pc' = "outer"
    /\ UNCHANGED <<ndvi_image, dim_x, dim_y, image_without_grid, y, x, x_next,
                   visited, mean_value, grid_out>>
    /\ UNCHANGED <<indexVars, healthVars, mainVars>>

\* Line 75: for y in range(0, height, dim_y); range() refuses a step of 0.
GridOuter ==
    /\ grid_pc = "outer"
    /\ IF dim_y = 0
       THEN /\ GridExit(GridRaise("ValueError"))
            /\ UNCHANGED <<y, x_next>>
       ELSE IF InRange(y_next, ndvi_img_array.h, dim_y)
       THEN /\ y' = y_next
            /\ x_next' = 0
            /\ grid_pc' = "inner"
            /\ UNCHANGED <<grid_out, mainVars>>
       ELSE /\ grid_pc' = "return"
            /\ UNCHANGED <<y, x_next, grid_out, mainVars>>
    /\ UNCHANGED <<ndvi_image, dim_x, dim_y, ndvi_img_array, color_mapped_ndvi,
                   image_without_grid, image_with_visible_grid, x, y_next,
                   aliased, visited, mean_value>>
    /\ UNCHANGED <<indexVars, healthVars>>

\* Line 76: for x in range(0, width, dim_x); the cell at (y, x) is visited.
GridInner ==
    /\ grid_pc = "inner"
    /\ IF dim_x = 0
       THEN /\ GridExit(GridRaise("ValueError"))
            /\ UNCHANGED <<x, y_next, visited>>
       ELSE IF InRange(x_next, ndvi_img_array.w, dim_x)
       THEN /\ x' = x_next
            /\ visited' = Append(visited, <<y, x_next>>)
            /\ grid_pc' = "fill"
            /\ UNCHANGED <<y_next, grid_out, mainVars>>
       ELSE /\ y_next' = y + dim_y
            /\ grid_pc' = "outer"
            /\ UNCHANGED <<x, visited, grid_out, mainVars>>
    /\ UNCHANGED <<ndvi_image, dim_x, dim_y, ndvi_img_array, color_mapped_ndvi,
                   image_without_grid, image_with_visible_grid, y, x_next,
                   aliased, mean_value>>
    /\ UNCHANGED <<indexVars, healthVars>>

\* Lines 77-82: the mean of the cell, rescaled, truncated and written to
\* every pixel of the cell.  image_with_visible_grid is the same array once
\* line 88 has run.
GridFill ==
    /\ grid_pc = "fill"
    /\ LET square == CellPixels(ndvi_img_array, y, x, dim_x, dim_y)
           scaled == Rescale(Mean(ndvi_img_array, square))
       IN IF PyIntError(scaled) # "none"
          THEN /\ GridExit(GridRaise(PyIntError(scaled)))
               /\ UNCHANGED <<mean_value, color_mapped_ndvi, image_with_visible_grid>>
          ELSE /\ mean_value' = Trunc(scaled)
               /\ color_mapped_ndvi' = FillCell(color_mapped_ndvi, square, Trunc(scaled))
               /\ image_with_visible_grid' =
                      IF aliased THEN color_mapped_ndvi' ELSE image_with_visible_grid
               /\ grid_pc' = "copy"
               /\ UNCHANGED <<grid_out, mainVars>>
    /\ UNCHANGED <<ndvi_image, dim_x, dim_y, ndvi_img_array, image_without_grid,
                   y, x, y_next, x_next, aliased, visited>>
    /\ UNCHANGED <<indexVars, healthVars>>

\* Line 84: image_without_grid = np.copy(color_mapped_ndvi)
GridCopy ==
    /\ grid_pc = "copy"
    /\ image_without_grid' = color_mapped_ndvi
    /\ grid_pc' = "rect"
    /\ UNCHANGED <<ndvi_image, dim_x, dim_y, ndvi_img_array, color_mapped_ndvi,
                   image_with_visible_grid, y, x, y_next, x_next, aliased,
                   visited, mean_value, grid_out>>
    /\ UNCHANGED <<indexVars, healthVars, mainVars>>

\* Lines 87-88: the rectangle is drawn into color_mapped_ndvi itself, and
\* image_with_visible_grid becomes another name of that array.
GridRect ==
    /\ grid_pc = "rect"
    /\ color_mapped_ndvi' =
           Rectangle(color_mapped_ndvi, x, y, x + dim_x - 1, y + dim_y - 1)
    /\ image_with_visible_grid' = color_mapped_ndvi'
    /\ aliased' = TRUE
    /\ x_next' = x + dim_x
    /\ grid_pc' = "inner"
    /\ UNCHANGED <<ndvi_image, dim_x, dim_y, ndvi_img_array, image_without_grid,
                   y, x, y_next, visited, mean_value, grid_out>>
    /\ UNCHANGED <<indexVars, healthVars, mainVars>>

\* Line 90: image_without_grid is bound only once a cell has been processed.
GridReturn ==
    /\ grid_pc = "return"
    /\ IF image_without_grid = Unbound
       THEN GridExit(GridRaise("UnboundLocalError"))
       ELSE GridExit(GridOk(image_without_grid, image_with_visible_grid))
    /\ UNCHANGED <<ndvi_image, dim_x, dim_y, ndvi_img_array, color_mapped_ndvi,
                   image_without_grid, image_with_visible_grid, y, x, y_next,
                   x_next, aliased, visited, mean_value>>
    /\ UNCHANGED <<indexVars, healthVars>>

NextGrid == GridEnter \/ GridOuter \/ GridInner \/ GridFill \/ GridCopy
            \/ GridRect \/ GridReturn

\* ------------------------------------------------------------ utils.py: the health data
RECURSIVE SumSeq(_)
SumSeq(q) == IF q = <<>> THEN 0 ELSE Head(q) + SumSeq(Tail(q))

FLess(a, b) == a.n * b.d < b.n * a.d

\* np.interp(v, [-1, 1], [0, 100]): linear inside the domain, the end values
\* outside it, NaN for NaN.
Interp(v) ==
    IF IsNaN(v) THEN NaN
    ELSE IF IsInf(v) THEN (IF v.n < 0 THEN FromInt(0) ELSE FromInt(100))
    ELSE IF FLess(v, FromInt(-1)) THEN FromInt(0)
    ELSE IF FLess(FromInt(1), v) THEN FromInt(100)
    ELSE FMul(FAdd(v, FromInt(1)), FromInt(50))

HealthPending ==
    [exc |-> "pending", total_vineyard_pixels |-> 0, total_plant_pixels |-> 0,
     vine_area_meters |-> NaN, ndvi_mean_healthiness_level |-> NaN,
     percentage_ndvi_mean_level |-> NaN]
HealthRaise(e) == [HealthPending EXCEPT !.exc = e]

\* Lines 131-140.  The first division is Python's and raises on a zero
\* divisor; the second is a NumPy scalar's and yields NaN (with a warning).
HealthResult(tvp, tpp, values, area) ==
    IF tvp = 0 THEN HealthRaise("ZeroDivisionError")
    ELSE LET mean == FDiv(FDiv(FromInt(SumSeq(values)), FromInt(Len(values))),
                          FromInt(255))
         IN [exc |-> "none",
             total_vineyard_pixels |-> tvp,
             total_plant_pixels |-> tpp,
             vine_area_meters |-> FDiv(FMul(FromInt(tpp), area), FromInt(tvp)),
             ndvi_mean_healthiness_level |-> mean,
             percentage_ndvi_mean_level |-> Interp(mean)]

HealthExit(result) ==
    /\ health_out' = result
    /\ health_pc' = "done"
    /\ IF main_pc = "in_health"
       THEN /\ main_pc' = IF result.exc = "none" THEN "print" ELSE "raised"
            /\ main_exc' = IF result.exc = "none" THEN main_exc ELSE result.exc
       ELSE UNCHANGED <<main_pc, main_exc>>
    /\ UNCHANGED <<config, nir_image, rgb_image, r_image, r, saved>>

\* Lines 110-115
HealthEnter ==
    /\ health_pc = "call"
    /\ image_copy_without_grid' = health_arg
    /\ total_vineyard_pixels' = 0
    /\ total_plant_pixels' = 0
    /\ healthiness_values' = <<>>
    /\ hy' = 0
    /\ hx' = 0
    /\ health_pc' = IF health_arg.h > 0 /\ health_arg.w > 0 THEN "scan" ELSE "finish"
    /\ UNCHANGED <<health_arg, vineyard_total_area_hectareas,
                   outside_vineyard_color, ground_color, health_out>>
    /\ UNCHANGED <<indexVars, gridVars, mainVars>>

\* Counting of one pixel, lines 123-129: both tests are made on every pixel.
CountVineyard(pixel_value, outside, n) ==
    IF pixel_value # outside THEN n + 1 ELSE n
\* Fault variant: the second test joined with "or".
IsPlantEither(pixel_value, outside, ground) ==
    pixel_value # outside \/ pixel_value # ground
IsPlant(pixel_value, outside, ground) ==
    pixel_value # outside /\ pixel_value # ground

\* Lines 118-129: one pixel of the scan, rows first.
HealthPixel ==
    /\ health_pc = "scan"
    /\ LET pixel_value == image_copy_without_grid.px[<<hy, hx>>]
           plant == IsPlant(pixel_value, outside_vineyard_color, ground_color)
       IN /\ total_vineyard_pixels' =
                 CountVineyard(pixel_value, outside_vineyard_color, total_vineyard_pixels)
          /\ healthiness_values' =
                 IF plant THEN Append(healthiness_values, pixel_value)
                 ELSE healthiness_values
          /\ total_plant_pixels' =
                 IF plant THEN total_plant_pixels + 1 ELSE total_plant_pixels
    /\ IF hx + 1 < image_copy_without_grid.w
       THEN hx' = hx + 1 /\ hy' = hy /\ health_pc' = "scan"
       ELSE IF hy + 1 < image_copy_without_grid.h
       THEN hx' = 0 /\ hy' = hy + 1 /\ health_pc' = "scan"
       ELSE hx' = hx /\ hy' = hy /\ health_pc' = "finish"
    /\ UNCHANGED <<health_arg, vineyard_total_area_hectareas,
                   outside_vineyard_color, ground_color,
                   image_copy_without_grid, health_out>>
    /\ UNCHANGED <<indexVars, gridVars, mainVars>>

\* Lines 131-140
HealthFinish ==
    /\ health_pc = "finish"
    /\ HealthExit(HealthResult(total_vineyard_pixels, total_plant_pixels,
                               healthiness_values, vineyard_total_area_hectareas))
    /\ UNCHANGED <<health_arg, vineyard_total_area_hectareas,
                   outside_vineyard_color, ground_color, image_copy_without_grid,
                   total_vineyard_pixels, total_plant_pixels, healthiness_values,
                   hy, hx>>
    /\ UNCHANGED <<indexVars, gridVars>>

NextHealth == HealthEnter \/ HealthPixel \/ HealthFinish

\* ------------------------------------------------------------ main.py
NoConfig ==
    [grid_size_x |-> 0, grid_size_y |-> 0, vineyard_total_hectareas |-> NaN,
     outside_vineyard_color |-> 0, ground_color |-> 0]

\* The configurations and images main is run on.
Configs ==
    [grid_size_x : 0 .. 2, grid_size_y : 0 .. 2,
     vineyard_total_hectareas : {FromInt(10)},
     outside_vineyard_color : {0, 244}, ground_color : {255}]
NirImages == Family(MaxBand, MaxBand, "uint8", {200}, {0})
RedImages == Family(MaxBand, MaxBand, "uint8", {0, 50}, {})
\* A colour image as cv2.imread gives it: each sample is <<blue, green, red>>.
Bgr(red) ==
    [h |-> red.h, w |-> red.w, dtype |-> "uint8x3",
     px |-> [p \in DOMAIN red.px |-> <<90, 120, red.px[p]>>]]
RgbImages == { Bgr(red) : red \in RedImages }

\* rgb_image[:, :, c]
Channel(img, c) ==
    [h |-> img.h, w |-> img.w, dtype |-> "uint8",
     px |-> [p \in DOMAIN img.px |-> img.px[p][c + 1]]]

\* cv2.resize(img, (width, height)): a raster of the asked size (the
\* interpolation is modelled as sampling the nearest source pixel).
Resize(img, width, height) ==
    [h |-> height, w |-> width, dtype |-> img.dtype,
     px |-> [p \in Pixels(height, width) |->
               img.px[<<(p[1] * img.h) \div height, (p[2] * img.w) \div width>>]]]

\* Line 23
MainLoadConfig ==
    /\ main_pc = "config"
    /\ config' \in Configs
    /\ main_pc' = "images"
    /\ UNCHANGED <<nir_image, rgb_image, r_image, r, saved, main_exc>>
    /\ UNCHANGED <<indexVars, gridVars, healthVars>>

\* Lines 39-40
MainLoadImages ==
    /\ main_pc = "images"
    /\ nir_image' \in NirImages
    /\ rgb_image' \in RgbImages
    /\ main_pc' = "red"
    /\ UNCHANGED <<config, r_image, r, saved, main_exc>>
    /\ UNCHANGED <<indexVars, gridVars, healthVars>>

\* Line 43
MainExtractRed ==
    /\ main_pc = "red"
    /\ r_image' = Channel(rgb_image, 2)
    /\ main_pc' = "resize"
    /\ UNCHANGED <<config, nir_image, rgb_image, r, saved, main_exc>>
    /\ UNCHANGED <<indexVars, gridVars, healthVars>>

\* Lines 46-50: the resized raster is bound to r.
MainResize ==
    /\ main_pc = "resize"
    /\ r' = IF Shape(nir_image) # Shape(r_image)
            THEN Resize(r_image, nir_image.w, nir_image.h)
            ELSE r
    /\ main_pc' = "ndvi"
    /\ UNCHANGED <<config, nir_image, rgb_image, r_image, saved, main_exc>>
    /\ UNCHANGED <<indexVars, gridVars, healthVars>>

\* The second argument of the call on line 56.
NdviRedArgument == r_image

\* Line 56
MainNdvi ==
    /\ main_pc = "ndvi"
    /\ LET res == ndvi(nir_image, NdviRedArgument)
       IN IF res.exc = "none"
          THEN /\ ndvi_image' = res.val
               /\ main_pc' = "grid"
               /\ UNCHANGED main_exc
          ELSE /\ main_pc' = "raised"
               /\ main_exc' = res.exc
               /\ UNCHANGED ndvi_image
    /\ UNCHANGED <<config, nir_image, rgb_image, r_image, r, saved>>
    /\ UNCHANGED <<grid_pc, dim_x, dim_y, ndvi_img_array, color_mapped_ndvi,
                   image_without_grid, image_with_visible_grid, y, x, y_next,
                   x_next, aliased, visited, mean_value, grid_out>>
    /\ UNCHANGED <<indexVars, healthVars>>

\* Line 62: the call of create_grid_with_color_mapping
MainGrid ==
    /\ main_pc = "grid"
    /\ dim_x' = config.grid_size_x
    /\ dim_y' = config.grid_size_y
    /\ grid_pc' = "call"
    /\ main_pc' = "in_grid"
    /\ UNCHANGED <<ndvi_image, ndvi_img_array, color_mapped_ndvi,
                   image_without_grid, image_with_visible_grid, y, x, y_next,
                   x_next, aliased, visited, mean_value, grid_out>>
    /\ UNCHANGED <<config, nir_image, rgb_image, r_image, r, saved, main_exc>>
    /\ UNCHANGED <<indexVars, healthVars>>

\* Line 68
MainSave ==
    /\ main_pc = "save"
    /\ saved' = grid_out.with
    /\ main_pc' = "health"
    /\ UNCHANGED <<config, nir_image, rgb_image, r_image, r, main_exc>>
    /\ UNCHANGED <<indexVars, gridVars, healthVars>>

\* Lines 74-76: the call of extract_vineyard_health_data
MainHealth ==
    /\ main_pc = "health"
    /\ health_arg' = grid_out.without
    /\ vineyard_total_area_hectareas' = config.vineyard_total_hectareas
    /\ outside_vineyard_color' = config.outside_vineyard_color
    /\ ground_color' = config.ground_color
    /\ health_pc' = "call"
    /\ main_pc' = "in_health"
    /\ UNCHANGED <<image_copy_without_grid, total_vineyard_pixels,
                   total_plant_pixels, healthiness_values, hy, hx, health_out>>
    /\ UNCHANGED <<config, nir_image, rgb_image, r_image, r, saved, main_exc>>
    /\ UNCHANGED <<indexVars, gridVars>>

\* Lines 78-84
MainPrint ==
    /\ main_pc = "print"
    /\ main_pc' = "done"
    /\ UNCHANGED <<config, nir_image, rgb_image, r_image, r, saved, main_exc>>
    /\ UNCHANGED <<indexVars, gridVars, healthVars>>

NextMain == MainLoadConfig \/ MainLoadImages \/ MainExtractRed \/ MainResize
            \/ MainNdvi \/ MainGrid \/ MainSave \/ MainHealth \/ MainPrint
            \/ NextGrid \/ NextHealth

\* ------------------------------------------------------------ direct calls of the indices
CallNdvi ==
    /\ index_fn = "none"
    /\ index_fn' = "ndvi"
    /\ index_out' = ndvi(nir, band)
    /\ UNCHANGED <<nir, band, gridVars, healthVars, mainVars>>
CallGndvi ==
    /\ index_fn = "none"
    /\ index_fn' = "gndvi"
    /\ index_out' = gndvi(nir, band)
    /\ UNCHANGED <<nir, band, gridVars, healthVars, mainVars>>
CallNdre ==
    /\ index_fn = "none"
    /\ index_fn' = "ndre"
    /\ index_out' = ndre(nir, band)
    /\ UNCHANGED <<nir, band, gridVars, healthVars, mainVars>>
CallNdwi ==
    /\ index_fn = "none"
    /\ index_fn' = "ndwi"
    /\ index_out' = ndwi(nir, band)
    /\ UNCHANGED <<nir, band, gridVars, healthVars, mainVars>>

NextIndex == CallNdvi \/ CallGndvi \/ CallNdre \/ CallNdwi

\* ------------------------------------------------------------ initial states
IdleIndex ==
    /\ index_fn = "idle"
    /\ nir = NoRaster
    /\ band = NoRaster
    /\ index_out = NoResult
GridLocals ==
    /\ ndvi_img_array = NoRaster
    /\ color_mapped_ndvi = NoRaster
    /\ image_without_grid = Unbound
    /\ image_with_visible_grid = NoRaster
    /\ y = -1
    /\ x = -1
    /\ y_next = 0
    /\ x_next = 0
    /\ aliased = FALSE
    /\ visited = <<>>
    /\ mean_value = 0
    /\ grid_out = GridPending
IdleGrid ==
    /\ grid_pc = "idle"
    /\ ndvi_image = NoRaster
    /\ dim_x = 0
    /\ dim_y = 0
    /\ GridLocals
HealthLocals ==
    /\ image_copy_without_grid = NoRaster
    /\ total_vineyard_pixels = 0
    /\ total_plant_pixels = 0
    /\ healthiness_values = <<>>
    /\ hy = 0
    /\ hx = 0
    /\ health_out = HealthPending
IdleHealth ==
    /\ health_pc = "idle"
    /\ health_arg = NoRaster
    /\ vineyard_total_area_hectareas = NaN
    /\ outside_vineyard_color = 0
    /\ ground_color = 0
    /\ HealthLocals
MainLocals ==
    /\ config = NoConfig
    /\ nir_image = NoRaster
    /\ rgb_image = NoRaster
    /\ r_image = NoRaster
    /\ r = Unbound
    /\ saved = NoRaster
    /\ main_exc = "none"
IdleMain ==
    /\ main_pc = "idle"
    /\ MainLocals

\* The band rasters the index functions are called on: 8-bit samples, any
\* two shapes.
NirBands == Family(MaxH, MaxW, "uint8", {0, 200}, {255})
OtherBands == Family(MaxH, MaxW, "uint8", {0, 50}, {200})
InitIndex ==
    /\ index_fn = "none"
    /\ nir \in NirBands
    /\ band \in OtherBands
    /\ index_out = NoResult
    /\ IdleGrid /\ IdleHealth /\ IdleMain

\* The index rasters and cell sizes the grid is built on: finite samples
\* (among them 128, whose rescaled mean is a multiple of 256, and a negative
\* one), NaN and infinity; cell sizes from -1 up.
IndexSamples == {FromInt(0), Frac(1, 100), FromInt(128)}
IndexSpots == {Frac(-1, 100), NaN, Inf(1)}
IndexRasters ==
    Family(MaxH, MaxW, "float32", IndexSamples, IndexSpots)
    \cup {Uniform(4, 4, "float32", FromInt(128))}
CellSizes == (-1) .. MaxCell
InitGrid ==
    /\ grid_pc = "call"
    /\ ndvi_image \in IndexRasters
    /\ dim_x \in CellSizes
    /\ dim_y \in CellSizes
    /\ GridLocals
    /\ IdleIndex /\ IdleHealth /\ IdleMain

\* The analysis rasters and sentinels the health data is extracted from.
HealthImages ==
    Family(MaxH, MaxW, "uint8", {0, 255}, {51})
    \cup Family2(MaxH, MaxW, "uint8", {0, 51}, {255}, {0, 204})
Sentinels == {0, 255}
InitHealth ==
    /\ health_pc = "call"
    /\ health_arg \in HealthImages
    /\ vineyard_total_area_hectareas = FromInt(10)
    /\ outside_vineyard_color \in Sentinels
    /\ ground_color \in Sentinels
    /\ HealthLocals
    /\ IdleIndex /\ IdleGrid /\ IdleMain

InitMain ==
    /\ main_pc = "config"
    /\ MainLocals
    /\ IdleIndex /\ IdleGrid /\ IdleHealth

SpecIndex == InitIndex /\ [][NextIndex]_vars
SpecGrid == InitGrid /\ [][NextGrid]_vars
SpecHealth == InitHealth /\ [][NextHealth]_vars
SpecMain == InitMain /\ [][NextMain]_vars

Init == InitIndex \/ InitGrid \/ InitHealth \/ InitMain
Next == NextIndex \/ NextMain
Spec == Init /\ [][Next]_vars

\* ============================================================ properties
\* ------------------------------------------------------------ grid geometry
\* The origin of the cell that holds pixel p, and its clipped extent.
CellOriginOf(p) == <<(p[1] \div dim_y) * dim_y, (p[2] \div dim_x) * dim_x>>
CellOf(p) ==
    CellPixels(ndvi_image, CellOriginOf(p)[1], CellOriginOf(p)[2], dim_x, dim_y)
LastRowOf(p) == Min(CellOriginOf(p)[1] + dim_y, ndvi_image.h) - 1
LastColOf(p) == Min(CellOriginOf(p)[2] + dim_x, ndvi_image.w) - 1
Interior(p) ==
    /\ CellOriginOf(p)[1] < p[1] /\ p[1] < LastRowOf(p)
    /\ CellOriginOf(p)[2] < p[2] /\ p[2] < LastColOf(p)
GridReturned == grid_pc = "done" /\ grid_out.exc = "none"
PositiveCells == dim_x >= 1 /\ dim_y >= 1

\* int(mean * 255 * 20) of a set of samples, from the samples' numerators
\* over the common denominator 100: trunc(51 * sum / count).
RECURSIVE Sum100(_, _)
Sum100(f, S) ==
    IF S = {} THEN 0
    ELSE LET p == CHOOSE q \in S : TRUE
         IN f[p].n * (100 \div f[p].d) + Sum100(f, S \ {p})
TruncDiv(a, b) == IF a >= 0 THEN a \div b ELSE -((-a) \div b)
Intensity(S) == TruncDiv(51 * Sum100(ndvi_image.px, S), Cardinality(S))
AllFinite(S) == \A p \in S : IsFinite(ndvi_image.px[p])
Mod256(i) == ((i % 256) + 256) % 256

\* C1: the analysis raster returned holds, at every pixel, the rescaled mean
\* of the pixel's cell as stored in 8 bits, and no grid line.
C1_AnalysisRasterHasNoGridLines ==
    (GridReturned /\ PositiveCells) =>
        \A p \in Pixels(ndvi_image.h, ndvi_image.w) :
            grid_out.without.px[p] = Mod256(Intensity(CellOf(p)))

\* C4: with a cell width or height <= 0 the call ends with an
\* invalid-geometry error (ValueError), before any cell is visited, and
\* never returns rasters.
C4_InvalidGeometryFailsFast ==
    ((dim_x <= 0 \/ dim_y <= 0) /\ grid_pc \notin {"idle", "call"}) =>
        /\ visited = <<>>
        /\ grid_pc = "done" => grid_out.exc = "ValueError"

\* C5: with positive cell sizes the call never ends with an error.
C5_NoErrorBeyondGeometry ==
    (PositiveCells /\ grid_pc = "done") => grid_out.exc = "none"

\* C6: right after the fill of a cell, every pixel of the cell holds
\* int(mean * 255 * 20) reduced modulo 256 (wrapped, not clamped); on the 4x4
\* raster of 128s with cells of 2x2 that value is 0.
C6_FillWrapsModulo256 ==
    grid_pc = "copy" =>
        LET square == CellPixels(ndvi_image, y, x, dim_x, dim_y)
        IN /\ AllFinite(square)
           /\ mean_value = Intensity(square)
           /\ \A p \in square : color_mapped_ndvi.px[p] = Mod256(Intensity(square))
           /\ (ndvi_image = Uniform(4, 4, "float32", FromInt(128))
                  /\ dim_x = 2 /\ dim_y = 2)
              => \A p \in square : color_mapped_ndvi.px[p] = 0
C6_Witness ==
    /\ grid_pc = "copy"
    /\ ndvi_image = Uniform(4, 4, "float32", FromInt(128))
    /\ dim_x = 2 /\ dim_y = 2
    /\ Len(visited) = 4
    /\ mean_value = 652800
    /\ color_mapped_ndvi.px[<<3, 3>>] = 0

\* C7: the two rasters returned have the input's shape and agree on every
\* pixel strictly inside a cell; right after the outline of cell (y, x) is
\* drawn, what the drawing changed lies on the first or last row or column
\* of that cell.
C7_GridLinesOnlyOnBorders ==
    /\ (GridReturned /\ PositiveCells) =>
          /\ Shape(grid_out.without) = Shape(ndvi_image)
          /\ Shape(grid_out.with) = Shape(ndvi_image)
          /\ grid_out.without.dtype = "uint8" /\ grid_out.with.dtype = "uint8"
          /\ \A p \in Pixels(ndvi_image.h, ndvi_image.w) :
                Interior(p) => grid_out.without.px[p] = grid_out.with.px[p]
    /\ (aliased /\ grid_pc = "inner" /\ x_next = x + dim_x) =>
          \A p \in Pixels(ndvi_image.h, ndvi_image.w) :
              image_without_grid.px[p] # color_mapped_ndvi.px[p]
                  => (CellOriginOf(p) = <<y, x>> /\ ~Interior(p))
C7_Witness ==
    /\ GridReturned
    /\ Len(visited) >= 2
    /\ \E p \in Pixels(ndvi_image.h, ndvi_image.w) :
          Interior(p) /\ grid_out.with.px[p] # 255
    /\ \E p \in Pixels(ndvi_image.h, ndvi_image.w) :
          grid_out.without.px[p] # grid_out.with.px[p]

\* The cells range(0, H, dim_y) x range(0, W, dim_x) in row-major order.
ExpectedCells ==
    LET rows == CeilDiv(ndvi_image.h, dim_y)
        cols == CeilDiv(ndvi_image.w, dim_x)
    IN [i \in 1 .. rows * cols |->
          <<((i - 1) \div cols) * dim_y, ((i - 1) % cols) * dim_x>>]
VisitedCover ==
    \A p \in Pixels(ndvi_image.h, ndvi_image.w) :
        Cardinality({ i \in 1 .. Len(visited) :
            p \in CellPixels(ndvi_image, visited[i][1], visited[i][2], dim_x, dim_y) }) = 1

\* C8: with positive cell sizes the cell loop ends having visited exactly
\* ceil(H / dim_y) * ceil(W / dim_x) cells, in row-major order from (0, 0),
\* clipped cells included, pairwise disjoint and covering every pixel.
C8_LoopVisitsEveryCell ==
    (PositiveCells /\ grid_pc = "done") =>
        /\ Len(visited) = CeilDiv(ndvi_image.h, dim_y) * CeilDiv(ndvi_image.w, dim_x)
        /\ visited = ExpectedCells
        /\ VisitedCover
        /\ (ndvi_image.h <= dim_y /\ ndvi_image.w <= dim_x) => Len(visited) = 1
\* The same for the calls that return: only an exception of int() cuts the
\* loop short.
C8_OnReturn ==
    (PositiveCells /\ GridReturned) =>
        /\ visited = ExpectedCells
        /\ VisitedCover
        /\ (ndvi_image.h <= dim_y /\ ndvi_image.w <= dim_x) => Len(visited) = 1

\* ------------------------------------------------------------ health data
RECURSIVE SumOver(_, _)
SumOver(f, S) ==
    IF S = {} THEN 0
    ELSE LET p == CHOOSE q \in S : TRUE
         IN f[p] + SumOver(f, S \ {p})
VineyardPixels ==
    { p \in Pixels(health_arg.h, health_arg.w) :
        health_arg.px[p] # outside_vineyard_color }
PlantPixels ==
    { p \in VineyardPixels : health_arg.px[p] # ground_color }
Scanned == health_pc \in {"finish", "done"}

\* C2: a raster with vineyard pixels but no plant pixel makes the call fail;
\* it never returns statistics.
C2_NoPlantPixelsFails ==
    (health_pc = "done" /\ total_vineyard_pixels > 0 /\ total_plant_pixels = 0)
        => health_out.exc # "none"

\* C3: once every pixel is scanned the two counters are the numbers of
\* non-outside and of non-outside, non-ground pixels, and the values kept
\* are exactly the plant pixels' values, each once.
C3_CountsAfterScan ==
    Scanned =>
        /\ total_vineyard_pixels = Cardinality(VineyardPixels)
        /\ total_plant_pixels = Cardinality(PlantPixels)
        /\ Len(healthiness_values) = Cardinality(PlantPixels)
        /\ SumSeq(healthiness_values) = SumOver(health_arg.px, PlantPixels)
C3_Witness ==
    /\ health_pc = "done"
    /\ 0 < total_plant_pixels
    /\ total_plant_pixels < total_vineyard_pixels
    /\ total_vineyard_pixels < health_arg.h * health_arg.w
    /\ SumSeq(healthiness_values) > 255
C3_WitnessEqualSentinels ==
    /\ health_pc = "done"
    /\ outside_vineyard_color = ground_color
    /\ 0 < total_plant_pixels
    /\ total_plant_pixels = total_vineyard_pixels

\* ------------------------------------------------------------ indices
\* (a - b) / (a + b) of two 8-bit samples.
Quotient(a, b) == IF a + b = 0 THEN NaN ELSE Frac(a - b, a + b)
EqualShapes == Shape(nir) = Shape(band)

\* C9: on equal-shaped 8-bit rasters ndvi(A, B) has their shape and is
\* (A - B) / (A + B) pointwise, ndvi(A, B) = -ndvi(B, A) wherever A + B # 0,
\* and ndwi(nir, g) is (g - nir) / (g + nir) = -gndvi(nir, g) there.
C9_IndexFormulas ==
    (EqualShapes /\ index_fn \in {"ndvi", "ndwi"}) =>
        /\ index_out.exc = "none"
        /\ Shape(index_out.val) = Shape(nir)
        /\ \A p \in Pixels(nir.h, nir.w) :
              LET a == nir.px[p]
                  b == band.px[p]
              IN IF index_fn = "ndvi"
                 THEN /\ index_out.val.px[p] = Quotient(a, b)
                      /\ a + b # 0 =>
                            index_out.val.px[p] = FNeg(ndvi(band, nir).val.px[p])
                 ELSE /\ index_out.val.px[p] = Quotient(b, a)
                      /\ a + b # 0 =>
                            index_out.val.px[p] = FNeg(gndvi(nir, band).val.px[p])
C9_Witness ==
    /\ EqualShapes
    /\ index_fn = "ndwi"
    /\ nir.h >= 2 /\ nir.w >= 2
    /\ \E p \in Pixels(nir.h, nir.w) : index_out.val.px[p] = Frac(-3, 5)
    /\ \E p \in Pixels(nir.h, nir.w) : index_out.val.px[p] # Frac(-3, 5)

\* ------------------------------------------------------------ main
\* C10: the rasters handed to ndvi have the same shape: when the shapes of
\* the NIR and red rasters differ it is the resized raster that is passed,
\* the index raster has the NIR raster's shape and ndvi raises nothing.
C10_NdviGetsEqualShapes ==
    /\ main_pc = "ndvi" =>
          /\ Shape(NdviRedArgument) = Shape(nir_image)
          /\ Shape(nir_image) # Shape(r_image) => NdviRedArgument = r
    /\ main_pc = "grid" => Shape(ndvi_image) = Shape(nir_image)
    /\ main_pc = "raised" => main_exc # "ValueError" \/ grid_pc # "idle"
====
